---- MODULE Spec2Model ----
(***************************************************************************)
(* yawr: a WebSocket RPC library.  The module models RPCBase (the          *)
(* correlation engine), RPCServer (connections, heartbeat, groups),        *)
(* ServerUsers (presence) and RPCClient, with the transport between them   *)
(* as FIFO channels of JSON frames.                                        *)
(***************************************************************************)
EXTENDS Integers, Sequences, FiniteSets, TLC

\* ------------------------------------------------------------------ bounds
\* Server-side sockets 1..MaxConns; a socket is accepted once and never reused.
MaxConns == 2
\* Calls one client issues.
MaxCalls == 2
\* Frames in flight per direction of one connection.
MaxChan == 2
\* Holds (connections and listeners) on one presence entry.
MaxRef == 3
\* Model time stops here.
MaxTime == 8
\* RPCServer.pingTimeout (30000 ms), in time units of 10 s.
PingTimeout == 3

Conns == 1..MaxConns
Groups == {"room1", "room2"}
GroupCallbacks == {"cbA", "cbB"}
Users == {"u1", "u2"}
Listeners == {"f", "g"}
NoUser == "-"

\* ------------------------------------------------------------------ helpers
Put(f, k, v) == [x \in DOMAIN f \cup {k} |-> IF x = k THEN v ELSE f[x]]
Del(f, k) == [x \in DOMAIN f \ {k} |-> f[x]]
Empty == [x \in {} |-> 0]

\* ------------------------------------------------------------------ values
\* JavaScript values a handler may return or a caller may pass.
Str(s) == [t |-> "string", v |-> s]
Undefined == [t |-> "undefined", v |-> ""]
Null == [t |-> "null", v |-> ""]
NaN == [t |-> "number", v |-> "NaN"]
\* What callers and handlers produce; Null is what a decoder can add to it.
Vals == {Str("hello"), Str(""), Undefined, NaN}

\* JSON text of a value.
JStr(s) == [j |-> "string", s |-> s]
JNull == [j |-> "null", s |-> ""]
Absent == [j |-> "absent", s |-> ""]

\* JSON.stringify of a value that is an array element: undefined and NaN
\* are written as null.
stringifyElem(v) ==
  IF v.t = "string" THEN JStr(v.v) ELSE JNull

\* JSON.stringify of a value that is an object property: an undefined
\* property is left out, NaN is written as null.
stringifyProp(v) ==
  IF v.t = "undefined" THEN Absent ELSE stringifyElem(v)

\* JSON.parse of one token; a property that is not there reads as undefined.
parseTok(tok) ==
  CASE tok.j = "string" -> Str(tok.s)
    [] tok.j = "null" -> Null
    [] OTHER -> Undefined

\* ------------------------------------------------------------------ messages
\* RPCMessage: the fields a variant does not have are undefined.
Msg(type, id, method, params, result, error) ==
  [type |-> type, id |-> id, method |-> method, params |-> params,
   result |-> result, error |-> error]
RPCCall(id, method, params) == Msg("rpc", id, method, params, Undefined, FALSE)
RPCResponse(id, result) == Msg("rpcResponse", id, "", <<>>, result, FALSE)
RPCError(id, error) == Msg("rpcResponse", id, "", <<>>, error, TRUE)
RPCEvent(method, params) == Msg("rpcEvent", -1, method, params, Undefined, FALSE)
Ping == Msg("ping", -1, "", <<>>, Undefined, FALSE)

\* JSON.stringify(message): the frame put on the transport.
stringify(m) ==
  [ok |-> TRUE, type |-> m.type, id |-> m.id, method |-> m.method,
   params |-> [i \in DOMAIN m.params |-> stringifyElem(m.params[i])],
   result |-> stringifyProp(m.result), error |-> m.error]

\* A frame JSON.parse throws on.
Garbage ==
  [ok |-> FALSE, type |-> "", id |-> -1, method |-> "", params |-> <<>>,
   result |-> Absent, error |-> FALSE]

\* JSON.parse(frame), for a frame that parses.
parse(f) ==
  Msg(f.type, f.id, f.method, [i \in DOMAIN f.params |-> parseTok(f.params[i])],
      parseTok(f.result), f.error)

\* ------------------------------------------------------------------ state
VARIABLES
  \* RPCServer
  socketData,    \* Map<WebSocket, SocketData>
  clients,       \* Set<WebSocket>
  groups,        \* Map<string, Set<WebSocket>>
  groupRemoved,  \* Map<string, () => void>
  timers,        \* pending setTimeout of pingClient: socket -> time it fires
  now,           \* Date.now()
  \* ServerUsers
  users,         \* Map<string, UserInfo>
  unsubs,        \* the unsubscribe closures addListener has returned
  \* transport
  srvSock,       \* server side of each socket: "idle", "open", "closed"
  s2c,           \* frames in flight, server to client
  c2s,           \* frames in flight, client to server
  attached,      \* the sockets whose peer is the RPCClient of the model
  \* RPCClient; its socket k is the peer of the server's socket k
  clientWs,      \* RPCClient.ws: the socket createSocket made last
  cliSock,       \* client side of each socket: "none", "connecting", "open",
                 \* "closing" (close() called or an error, no close event yet),
                 \* "closed"
  connected,     \* RPCClient.connected
  wasConnected,  \* RPCClient.wasConnected
  calls,         \* RPCBase.calls of the client: the ids with a continuation
  currentID,     \* RPCBase.currentID of the client
  promise,       \* the promise callRPC returned, per id
  \* history
  callInfo,      \* per id: the method, params and socket of the call
  returned,      \* per id: what the server's handler returned or threw; a
                 \* promise it returned is here until it settles
  respSeen,      \* per id: the Response that settled the call
  allocated,     \* the ids callRPC allocated, in order
  heard,         \* per socket: when the server accepted it or last got a Ping
  hbClosed,      \* per socket the heartbeat timeout closed: its user and groups
  delivered,     \* the Events the client's listener was called with, in order
  \* what the last step did
  sent,          \* frames the server passed to ws.send, per socket
  fired,         \* onGroupRemoved callbacks invoked, per group
  notified,      \* presence listeners invoked: per listener, the values passed
  cliLog,        \* signals and listeners the client invoked
  lastOp         \* the operation the last step ran, with its arguments

srvVars == <<socketData, clients, groups, groupRemoved, timers, now>>
userVars == <<users, unsubs>>
netVars == <<srvSock, s2c, c2s, attached>>
cliVars == <<clientWs, cliSock, connected, wasConnected, calls, currentID, promise>>
histVars == <<callInfo, returned, respSeen, allocated, heard, hbClosed, delivered>>
logVars == <<sent, fired, notified, cliLog, lastOp>>
vars == <<srvVars, userVars, netVars, cliVars, histVars, logVars>>

NoSent == [c \in Conns |-> <<>>]
NoFired == [g \in Groups |-> <<>>]
NoNotified == [l \in Listeners |-> <<>>]

\* The server state the nested calls of one handler thread through.
SrvState ==
  [socketData |-> socketData, clients |-> clients, groups |-> groups,
   timers |-> timers, users |-> users, unsubs |-> unsubs, srvSock |-> srvSock,
   s2c |-> s2c, sent |-> NoSent, fired |-> NoFired, notified |-> NoNotified,
   err |-> ""]

SetSrv(st) ==
  /\ socketData' = st.socketData
  /\ clients' = st.clients
  /\ groups' = st.groups
  /\ timers' = st.timers
  /\ users' = st.users
  /\ unsubs' = st.unsubs
  /\ srvSock' = st.srvSock
  /\ s2c' = st.s2c
  /\ sent' = st.sent
  /\ fired' = st.fired
  /\ notified' = st.notified

\* ------------------------------------------------------------------ ServerUsers
\* An unsubscribe closure captures (user, userInfo, listener).  live says
\* whether the captured userInfo is still the object users holds for user:
\* once an entry is deleted nothing can reach the object but its closures.
ClosureKeys == [user : Users, listener : Listeners, live : BOOLEAN]
NoUnsubs == [k \in ClosureKeys |-> [fresh |-> 0, spent |-> FALSE]]

\* The closures of a deleted entry now hold an object outside the map.
Detach(u, user) ==
  [k \in ClosureKeys |->
     IF k.user # user THEN u[k]
     ELSE IF k.live THEN [fresh |-> 0, spent |-> FALSE]
     ELSE LET was == u[[k EXCEPT !.live = TRUE]]
          IN [fresh |-> u[k].fresh + was.fresh, spent |-> u[k].spent \/ was.spent]]

incrementRef(st, user) ==
  IF user \notin DOMAIN st.users
  THEN [st EXCEPT !.users =
          Put(@, user, [refCount |-> 1, connections |-> 0, onStateChanged |-> {}])]
  ELSE [st EXCEPT !.users[user].refCount = @ + 1]

\* decrementRef deleting the entry while one reference is left.
decrementRefDeletesAtOne(st, user) ==
  IF user \notin DOMAIN st.users
  THEN [st |-> [st EXCEPT !.err = "User not found"], userInfo |-> <<>>]
  ELSE LET info == [st.users[user] EXCEPT !.refCount = @ - 1]
       IN [st |-> IF info.refCount <= 1
                  THEN [st EXCEPT !.users = Del(@, user),
                                  !.unsubs = Detach(@, user)]
                  ELSE [st EXCEPT !.users[user] = info],
           userInfo |-> info]

\* refCount-- on the entry; the entry leaves the map at zero.  The caller
\* keeps the object: it is returned beside the state.
decrementRef(st, user) ==
  IF user \notin DOMAIN st.users
  THEN [st |-> [st EXCEPT !.err = "User not found"], userInfo |-> <<>>]
  ELSE LET info == [st.users[user] EXCEPT !.refCount = @ - 1]
       IN [st |-> IF info.refCount <= 0
                  THEN [st EXCEPT !.users = Del(@, user),
                                  !.unsubs = Detach(@, user)]
                  ELSE [st EXCEPT !.users[user] = info],
           userInfo |-> info]

\* informAboutState reporting an entry without connections as connected.
informAboutStateNonNegative(st, userInfo) ==
  [st EXCEPT !.notified =
     [l \in Listeners |->
        IF l \in userInfo.onStateChanged
        THEN Append(@[l], userInfo.connections >= 0) ELSE @[l]]]

\* Every listener of the entry is called with connections > 0.
informAboutState(st, userInfo) ==
  [st EXCEPT !.notified =
     [l \in Listeners |->
        IF l \in userInfo.onStateChanged
        THEN Append(@[l], userInfo.connections > 0) ELSE @[l]]]

userConnected(st, user) ==
  LET st1 == incrementRef(st, user)
      st2 == [st1 EXCEPT !.users[user].connections = @ + 1]
  IN informAboutState(st2, st2.users[user])

userDisconnected(st, user) ==
  LET d == decrementRef(st, user)
  IN IF d.st.err # "" THEN d.st
     ELSE LET info == [d.userInfo EXCEPT !.connections = @ - 1]
              st2 == IF user \in DOMAIN d.st.users
                     THEN [d.st EXCEPT !.users[user] = info] ELSE d.st
          IN informAboutState(st2, info)

addListener(st, user, listener) ==
  LET st1 == incrementRef(st, user)
      st2 == [st1 EXCEPT !.users[user].onStateChanged = @ \cup {listener}]
      st3 == informAboutState(st2, st2.users[user])
      k == [user |-> user, listener |-> listener, live |-> TRUE]
  IN [st3 EXCEPT !.unsubs[k].fresh = @ + 1]

\* The closure addListener returned: decrementRef(user), then the listener
\* is deleted from the captured userInfo.
unsubscribe(st, k) ==
  LET d == decrementRef(st, k.user)
  IN IF d.st.err # "" THEN d.st
     ELSE IF k.live /\ k.user \in DOMAIN d.st.users
     THEN [d.st EXCEPT !.users[k.user].onStateChanged = @ \ {k.listener}]
     ELSE d.st

\* The state after new RPCServer(port) and, when att is not empty, after
\* new RPCClient(url): the constructor has created socket 1.
InitState(att) ==
  /\ socketData = Empty /\ clients = {} /\ groups = Empty /\ groupRemoved = Empty
  /\ timers = Empty /\ now = 1
  /\ users = Empty /\ unsubs = NoUnsubs
  /\ srvSock = [c \in Conns |-> "idle"] /\ s2c = NoSent /\ c2s = NoSent
  /\ attached = att
  /\ clientWs = IF att = {} THEN 0 ELSE 1
  /\ cliSock = [c \in Conns |-> IF c = 1 /\ att # {} THEN "connecting" ELSE "none"]
  /\ connected = FALSE /\ wasConnected = FALSE
  /\ calls = {} /\ currentID = 0 /\ promise = Empty
  /\ callInfo = Empty /\ returned = Empty /\ respSeen = Empty
  /\ allocated = <<>> /\ heard = Empty /\ hbClosed = Empty /\ delivered = <<>>
  /\ sent = NoSent /\ fired = NoFired /\ notified = NoNotified
  /\ cliLog = <<>> /\ lastOp = <<"init">>

\* ------------------------------------------------------------------ RPCBase, sending
\* RPCBase.send: ws.send(JSON.stringify(message)).  The transport carries
\* the frame when the socket is open; a frame for a peer the model does not
\* hold is consumed by that peer at once.
send(st, ws, message) ==
  [st EXCEPT !.sent[ws] = Append(@, stringify(message)),
             !.s2c[ws] = IF st.srvSock[ws] = "open" /\ ws \in attached
                         THEN Append(@, stringify(message)) ELSE @]

emit(st, ws, method, params) == send(st, ws, RPCEvent(method, params))

\* ------------------------------------------------------------------ RPCServer
NewSocketData ==
  [groups |-> {}, userId |-> NoUser, lastPing |-> 0, lastPong |-> 0,
   timeout |-> FALSE]

groupMemberCount(st, group) ==
  IF group \in DOMAIN st.groups THEN Cardinality(st.groups[group]) ELSE 0

RECURSIVE emitEach(_, _, _, _)
emitEach(st, groupSet, method, params) ==
  IF groupSet = {} THEN st
  ELSE LET client == CHOOSE x \in groupSet : TRUE
       IN emitEach(emit(st, client, method, params), groupSet \ {client},
                   method, params)

\* emitToGroup sending to every client of the server.
emitToGroupAllClients(st, group, method, params) ==
  emitEach(st, st.clients, method, params)

emitToGroup(st, group, method, params) ==
  IF group \in DOMAIN st.groups
  THEN emitEach(st, st.groups[group], method, params)
  ELSE st

\* pingClient that leaves lastPing as it was.
pingClientKeepsLastPing(st, ws) ==
  LET st1 == send(st, ws, Ping)
  IN [st1 EXCEPT !.socketData[ws].timeout = TRUE,
                 !.timers = Put(@, ws, now + PingTimeout)]

pingClient(st, ws) ==
  LET st1 == send(st, ws, Ping)
  IN [st1 EXCEPT !.socketData[ws].lastPing = now,
                 !.socketData[ws].timeout = TRUE,
                 !.timers = Put(@, ws, now + PingTimeout)]

onConnection(st, ws) ==
  pingClient([st EXCEPT !.clients = @ \cup {ws},
                        !.socketData = Put(@, ws, NewSocketData)], ws)

\* addToGroup without the look-up of the socket's data.
addToGroupNoCheck(st, ws, group) ==
  LET st1 == IF ws \in DOMAIN st.socketData
             THEN [st EXCEPT !.socketData[ws].groups = @ \cup {group}] ELSE st
  IN [st1 EXCEPT !.groups = Put(@, group,
                                (IF group \in DOMAIN @ THEN @[group] ELSE {})
                                  \cup {ws})]

addToGroup(st, ws, group) ==
  IF ws \notin DOMAIN st.socketData THEN st
  ELSE [st EXCEPT !.socketData[ws].groups = @ \cup {group},
                  !.groups = Put(@, group,
                                 (IF group \in DOMAIN @ THEN @[group] ELSE {})
                                   \cup {ws})]

deleteGroup(st, group) ==
  [st EXCEPT !.groups = Del(@, group),
             !.fired[group] = IF group \in DOMAIN groupRemoved
                              THEN Append(@, groupRemoved[group]) ELSE @]

\* groupSet.delete(ws), and deleteGroup when that leaves the set empty.
leaveGroupSet(st, ws, group) ==
  IF group \notin DOMAIN st.groups THEN st
  ELSE LET st1 == [st EXCEPT !.groups[group] = @ \ {ws}]
       IN IF st1.groups[group] = {} THEN deleteGroup(st1, group) ELSE st1

\* removeFromGroup that never deletes the group.
removeFromGroupKeepsGroup(st, ws, group) ==
  IF ws \notin DOMAIN st.socketData THEN st
  ELSE LET st1 == [st EXCEPT !.socketData[ws].groups = @ \ {group}]
       IN IF group \notin DOMAIN st1.groups THEN st1
          ELSE [st1 EXCEPT !.groups[group] = @ \ {ws}]

removeFromGroup(st, ws, group) ==
  IF ws \notin DOMAIN st.socketData THEN st
  ELSE leaveGroupSet([st EXCEPT !.socketData[ws].groups = @ \ {group}],
                     ws, group)

RECURSIVE leaveEach(_, _, _)
leaveEach(st, ws, left) ==
  IF left = {} THEN st
  ELSE LET group == CHOOSE g \in left : TRUE
       IN leaveEach(leaveGroupSet(st, ws, group), ws, left \ {group})

removeFromAllGroups(st, ws) ==
  IF ws \notin DOMAIN st.socketData THEN st
  ELSE [leaveEach(st, ws, st.socketData[ws].groups)
          EXCEPT !.socketData[ws].groups = {}]

\* onDisconnect without this.socketData.delete(ws).
onDisconnectKeepsData(st, ws) ==
  IF ws \notin DOMAIN st.socketData THEN st
  ELSE LET data == st.socketData[ws]
           st1 == IF data.userId # NoUser
                  THEN userDisconnected(st, data.userId) ELSE st
       IN IF st1.err # "" THEN st1
          ELSE LET st2 == IF data.timeout
                          THEN [st1 EXCEPT !.timers = Del(@, ws)] ELSE st1
                   st3 == removeFromAllGroups(st2, ws)
               IN [st3 EXCEPT !.srvSock[ws] = "closed",
                              !.clients = @ \ {ws}]

\* onDisconnect without clearTimeout(data.timeout).
onDisconnectLeavesTimer(st, ws) ==
  IF ws \notin DOMAIN st.socketData THEN st
  ELSE LET data == st.socketData[ws]
           st1 == IF data.userId # NoUser
                  THEN userDisconnected(st, data.userId) ELSE st
       IN IF st1.err # "" THEN st1
          ELSE LET st3 == removeFromAllGroups(st1, ws)
               IN [st3 EXCEPT !.srvSock[ws] = "closed",
                              !.clients = @ \ {ws},
                              !.socketData = Del(@, ws)]

\* An exception userDisconnected throws leaves onDisconnect where it was.
onDisconnect(st, ws) ==
  IF ws \notin DOMAIN st.socketData THEN st
  ELSE LET data == st.socketData[ws]
           st1 == IF data.userId # NoUser
                  THEN userDisconnected(st, data.userId) ELSE st
       IN IF st1.err # "" THEN st1
          ELSE LET st2 == IF data.timeout
                          THEN [st1 EXCEPT !.timers = Del(@, ws)] ELSE st1
                   st3 == removeFromAllGroups(st2, ws)
               IN [st3 EXCEPT !.srvSock[ws] = "closed",
                              !.clients = @ \ {ws},
                              !.socketData = Del(@, ws)]

onPing(st, ws) ==
  IF ws \notin DOMAIN st.socketData THEN st
  ELSE [st EXCEPT !.socketData[ws].lastPong = now]

\* ------------------------------------------------------------------ handlers
\* The functions registered on the server: echo is the one of the tests,
\* compute stands for any function that returns a value, fail for any that
\* throws, later for any that returns a promise; joinRoom and message are
\* those of the chat example.
SyncRegistered == {"echo", "compute", "fail"}
ChatRegistered == {"joinRoom", "message"}
Registered == SyncRegistered \cup {"later"} \cup ChatRegistered
Unregistered == {"nope", "missing"}

\* What one invocation of a function does: {k, v} with k "return" (v the
\* value), "throwError" (v the message of the Error), "throwOther", or for
\* a promise what it will do: "resolves" (v the value), "rejects" (v the
\* message of the Error) or "rejectsOther".
Outcomes(method, params) ==
  CASE method = "echo" ->
         {[k |-> "return", v |-> IF Len(params) > 0 THEN params[1] ELSE Undefined]}
    [] method = "compute" -> {[k |-> "return", v |-> r] : r \in Vals}
    [] method = "fail" ->
         {[k |-> "throwError", v |-> Str("boom")],
          [k |-> "throwError", v |-> Str("")],
          [k |-> "throwOther", v |-> Undefined]}
    [] method = "later" ->
         {[k |-> "resolves", v |-> Str("hello")],
          [k |-> "rejects", v |-> Str("boom")],
          [k |-> "rejects", v |-> Str("")],
          [k |-> "rejectsOther", v |-> Undefined]}
    [] method \in ChatRegistered -> {[k |-> "return", v |-> Undefined]}
    [] OTHER -> {}

\* The message without the name of the method.
NotFoundMessageNoName(method) == "Method not found"

\* `Method '${data.method}' not found`
NotFoundMessage(method) ==
  CASE method = "nope" -> "Method 'nope' not found"
    [] method = "missing" -> "Method 'missing' not found"
    [] method = "echo" -> "Method 'echo' not found"
    [] method = "compute" -> "Method 'compute' not found"
    [] method = "fail" -> "Method 'fail' not found"
    [] OTHER -> "Method '' not found"

\* ------------------------------------------------------------------ RPCBase, responding
\* sendResponse leaving the result out of the Response.
sendResponseNoResult(st, ws, id, result) == send(st, ws, RPCResponse(id, Undefined))

\* sendResponse for a result that is no Promise.
sendResponse(st, ws, id, result) == send(st, ws, RPCResponse(id, result))

sendError(st, ws, id, error) == send(st, ws, RPCError(id, error))

\* The message the catch clauses build from what was thrown.
CaughtMessage(out) ==
  IF out.k \in {"throwError", "rejects"} THEN out.v ELSE Str("Unknown Error")

\* The callbacks as if the catch callback ran after the then callback.
promiseSettledTwice(st, ws, id, out) ==
  IF out.k = "resolves"
  THEN sendError(sendResponse(st, ws, id, out.v), ws, id, Str("Unknown Error"))
  ELSE sendError(st, ws, id, CaughtMessage(out))

\* The then and catch callbacks sendResponse gives to a promise.
promiseSettled(st, ws, id, out) ==
  IF out.k = "resolves" THEN sendResponse(st, ws, id, out.v)
  ELSE sendError(st, ws, id, CaughtMessage(out))

\* What a function does to the server through its context before it
\* returns: joinRoom is ctx.addToGroup(roomName), message is
\* ctx.emitToGroup(roomName, 'onMessage', roomName, message).
handlerBody(st, ws, method, params) ==
  CASE method = "joinRoom" -> addToGroup(st, ws, params[1].v)
    [] method = "message" -> emitToGroup(st, params[1].v, "onMessage", params)
    [] OTHER -> st

\* onRPCMessage as if the Response left before the function ran.
onRPCMessageResponseFirst(st, ws, data, out) ==
  IF data.method \in Registered
  THEN IF ws \notin DOMAIN st.socketData THEN st
       ELSE IF out.k = "return"
       THEN handlerBody(sendResponse(st, ws, data.id, out.v),
                        ws, data.method, data.params)
       ELSE IF out.k \in {"throwError", "throwOther"}
       THEN sendError(st, ws, data.id, CaughtMessage(out))
       ELSE st
  ELSE sendError(st, ws, data.id, Str(NotFoundMessage(data.method)))

\* RPCServer.onRPCMessage; out is what the function does when invoked.
onRPCMessage(st, ws, data, out) ==
  IF data.method \in Registered
  THEN IF ws \notin DOMAIN st.socketData THEN st
       ELSE LET st1 == handlerBody(st, ws, data.method, data.params)
            IN IF out.k = "return"
               THEN sendResponse(st1, ws, data.id, out.v)
               ELSE IF out.k \in {"throwError", "throwOther"}
               THEN sendError(st1, ws, data.id, CaughtMessage(out))
               ELSE st1
  ELSE sendError(st, ws, data.id, Str(NotFoundMessage(data.method)))

\* ------------------------------------------------------------------ RPCBase, calling
\* JavaScript truthiness of a value.
Truthy(v) == v.t = "string" /\ v.v # ""

Pending == [state |-> "pending", value |-> Undefined, settled |-> 0]

\* resolve or reject of a promise: only the first one settles it.
Settle(p, state, value) ==
  IF p.state = "pending"
  THEN [state |-> state, value |-> value, settled |-> 1]
  ELSE [p EXCEPT !.settled = @ + 1]

\* The continuation callRPC stores: (result, error) => error ? reject(new
\* Error(error)) : resolve(result).
Continue(p, result, error) ==
  IF Truthy(error) THEN Settle(p, "rejected", error)
  ELSE Settle(p, "resolved", result)

\* ------------------------------------------------------------------ presence, alone
\* ServerUsers driven as RPCServer drives it: userDisconnected for a
\* connection that was counted, each unsubscribe closure called once.
InitUsers == InitState({})

UserConnected(u) ==
  /\ u \in DOMAIN users => users[u].refCount < MaxRef
  /\ SetSrv(userConnected(SrvState, u))
  /\ lastOp' = <<"userConnected", u>>
  /\ cliLog' = <<>>
  /\ UNCHANGED <<groupRemoved, now, c2s, attached, cliVars, histVars>>

UserDisconnected(u) ==
  /\ u \in DOMAIN users /\ users[u].connections > 0
  /\ SetSrv(userDisconnected(SrvState, u))
  /\ lastOp' = <<"userDisconnected", u>>
  /\ cliLog' = <<>>
  /\ UNCHANGED <<groupRemoved, now, c2s, attached, cliVars, histVars>>

AddListener(u, l) ==
  /\ u \in DOMAIN users => users[u].refCount < MaxRef
  /\ SetSrv(addListener(SrvState, u, l))
  /\ lastOp' = <<"addListener", u, l>>
  /\ cliLog' = <<>>
  /\ UNCHANGED <<groupRemoved, now, c2s, attached, cliVars, histVars>>

Unsubscribe(k) ==
  /\ unsubs[k].fresh > 0
  /\ SetSrv(unsubscribe([SrvState EXCEPT !.unsubs[k].fresh = @ - 1], k))
  /\ lastOp' = <<"unsubscribe", k>>
  /\ cliLog' = <<>>
  /\ UNCHANGED <<groupRemoved, now, c2s, attached, cliVars, histVars>>

NextUsers ==
  \/ \E u \in Users : UserConnected(u)
  \/ \E u \in Users : UserDisconnected(u)
  \/ \E u \in Users, l \in Listeners : AddListener(u, l)
  \/ \E k \in ClosureKeys : Unsubscribe(k)

SpecUsers == InitUsers /\ [][NextUsers]_vars

\* The value of connectedCount > 0 for an identity, false without an entry.
\* The connections of user u the presence tracker counts.
Connections(usr, u) == IF u \in DOMAIN usr THEN usr[u].connections ELSE 0

IsConnected(u) == u \in DOMAIN users /\ users[u].connections > 0

\* C8: addListener(u, f) invokes f once, at registration, with
\* connectedCount > 0 of that moment; right after connected(u) that value is
\* true; and a disconnected(u) that brings the count to 0 invokes every
\* listener of u with false.
C8_AddListenerInformsOnce ==
  /\ [][\A u \in Users, l \in Listeners :
          AddListener(u, l) => notified'[l] = <<IsConnected(u)>>]_vars
  /\ [][\A u \in Users, l \in Listeners :
          UserConnected(u) =>
            addListener(SrvState', u, l).notified[l] = <<TRUE>>]_vars
  /\ [][\A u \in Users :
          UserDisconnected(u) /\ users[u].connections = 1 =>
            \A l \in users[u].onStateChanged : notified'[l] = <<FALSE>>]_vars

\* An identity is connected, and a listener just registered for it was told
\* true, once.
C8_Witness ==
  /\ lastOp = <<"addListener", "u1", "f">>
  /\ users["u1"].connections = 1
  /\ notified["f"] = <<TRUE>>

\* ------------------------------------------------------------------ groups
\* RPCServer with its connections and groups; the peers are not RPCClients
\* of the model, and no heartbeat interval passes.
EvMethods == {"onMessage"}
EvParams == {<<Str("room1"), Str("hello")>>, <<NaN>>}

InitServer == InitState({})

\* wss 'connection': sockets are accepted in the order of their numbers.
Connect(c) ==
  /\ srvSock[c] = "idle"
  /\ c > 1 => srvSock[c - 1] # "idle"
  /\ c \in attached => cliSock[c] = "connecting"
  /\ SetSrv(onConnection([SrvState EXCEPT !.srvSock[c] = "open"], c))
  /\ heard' = Put(heard, c, now)
  /\ lastOp' = <<"connection", c>>
  /\ cliLog' = <<>>
  /\ UNCHANGED <<groupRemoved, now, c2s, attached, cliVars>>
  /\ UNCHANGED <<callInfo, returned, respSeen, allocated, hbClosed, delivered>>

\* ws 'close' and ws 'error': both handlers are onDisconnect(ws).
SocketClose(c, event) ==
  /\ srvSock[c] # "idle"
  /\ SetSrv(onDisconnect([SrvState EXCEPT !.srvSock[c] = "closed"], c))
  /\ lastOp' = <<event, c>>
  /\ cliLog' = <<>>
  /\ UNCHANGED <<groupRemoved, now, c2s, attached, cliVars, histVars>>

\* server.addToGroup(ws, group), or addToGroup of the context of ws.
AddToGroup(c, g) ==
  /\ srvSock[c] # "idle"
  /\ SetSrv(addToGroup(SrvState, c, g))
  /\ lastOp' = <<"addToGroup", c, g>>
  /\ cliLog' = <<>>
  /\ UNCHANGED <<groupRemoved, now, c2s, attached, cliVars, histVars>>

RemoveFromGroup(c, g) ==
  /\ srvSock[c] # "idle"
  /\ SetSrv(removeFromGroup(SrvState, c, g))
  /\ lastOp' = <<"removeFromGroup", c, g>>
  /\ cliLog' = <<>>
  /\ UNCHANGED <<groupRemoved, now, c2s, attached, cliVars, histVars>>

EmitToGroup(g, method, params) ==
  /\ \A c \in Conns : Len(s2c[c]) < MaxChan
  /\ SetSrv(emitToGroup(SrvState, g, method, params))
  /\ lastOp' = <<"emitToGroup", g, method, params>>
  /\ cliLog' = <<>>
  /\ UNCHANGED <<groupRemoved, now, c2s, attached, cliVars, histVars>>

\* onGroupRemoved(group, method): the last registration wins.
OnGroupRemoved(g, cb) ==
  /\ groupRemoved' = Put(groupRemoved, g, cb)
  /\ SetSrv(SrvState)
  /\ lastOp' = <<"onGroupRemoved", g, cb>>
  /\ cliLog' = <<>>
  /\ UNCHANGED <<now, c2s, attached, cliVars, histVars>>

\* onGroupRemoved(group, undefined)
OnGroupRemovedUndefined(g) ==
  /\ groupRemoved' = Del(groupRemoved, g)
  /\ SetSrv(SrvState)
  /\ lastOp' = <<"onGroupRemoved", g>>
  /\ cliLog' = <<>>
  /\ UNCHANGED <<now, c2s, attached, cliVars, histVars>>

NextGroups ==
  \/ \E c \in Conns : Connect(c)
  \/ \E c \in Conns, e \in {"close", "error"} : SocketClose(c, e)
  \/ \E c \in Conns, g \in Groups : AddToGroup(c, g)
  \/ \E c \in Conns, g \in Groups : RemoveFromGroup(c, g)
  \/ \E g \in Groups, m \in EvMethods, p \in EvParams : EmitToGroup(g, m, p)
  \/ \E g \in Groups, cb \in GroupCallbacks : OnGroupRemoved(g, cb)
  \/ \E g \in Groups : OnGroupRemovedUndefined(g)

SpecGroups == InitServer /\ [][NextGroups]_vars

\* C6: emitToGroup(group, method, params) passes one Event{method, params}
\* to the socket of every member the group has at the call and nothing to
\* any other socket; without the group nothing is sent.
C6_EmitToGroupMembersOnly ==
  [][\A g \in Groups, m \in EvMethods, p \in EvParams :
       EmitToGroup(g, m, p) =>
         \A c \in Conns :
           sent'[c] = IF g \in DOMAIN groups /\ c \in groups[g]
                      THEN <<stringify(RPCEvent(m, p))>> ELSE <<>>]_vars

\* Two connections are open, one of them in room1, and a broadcast to room1
\* reached that one alone.
C6_Witness ==
  /\ lastOp[1] = "emitToGroup" /\ lastOp[2] = "room1"
  /\ DOMAIN socketData = {1, 2}
  /\ groups = [g \in {"room1"} |-> {2}]
  /\ Len(sent[2]) = 1 /\ sent[2][1].type = "rpcEvent"
  /\ sent[1] = <<>>

Members(grp, g) == IF g \in DOMAIN grp THEN grp[g] ELSE {}

\* C7: in every step, a group whose member set goes from non-empty to empty
\* loses its entry, has member count 0, and the callback registered for it
\* was invoked once; for every other group no callback was invoked.
C7_EmptiedCallbackOnce ==
  [][\A g \in Groups :
       IF Members(groups, g) # {} /\ Members(groups', g) = {}
       THEN /\ g \notin DOMAIN groups'
            /\ groupMemberCount(SrvState', g) = 0
            /\ fired'[g] = IF g \in DOMAIN groupRemoved
                           THEN <<groupRemoved[g]>> ELSE <<>>
       ELSE fired'[g] = <<>>]_vars

\* The last member of room1 left it and the callback registered last ran.
C7_Witness ==
  /\ lastOp[1] = "removeFromGroup" /\ lastOp[3] = "room1"
  /\ "room1" \notin DOMAIN groups
  /\ "room1" \in DOMAIN groupRemoved /\ groupRemoved["room1"] = "cbB"
  /\ fired["room1"] = <<"cbB">>
  /\ fired["room2"] = <<>>

\* ------------------------------------------------------------------ RPCClient
\* ws.close() on a socket of the client.
closeSock(socks, k) ==
  IF socks[k] \in {"connecting", "open"} THEN [socks EXCEPT ![k] = "closing"]
  ELSE socks

\* Steps of the client leave the server as it is and clear the step logs.
ClientStep(st) ==
  /\ SetSrv(st)
  /\ UNCHANGED <<groupRemoved, now, attached, returned, heard, hbClosed>>

\* RPCClient.disconnect(), after the socket event that led to it made the
\* sockets socks.
disconnect(socks) ==
  /\ connected' = FALSE
  /\ cliSock' = closeSock(socks, clientWs)
  /\ cliLog' = <<"onDisconnected">>

\* call(method, ...params), that is callRPC(this.ws, method, ...params).
\* ws.send throws on a socket that is still connecting, and the promise
\* executor turns that into a rejection; on a closing or closed socket the
\* transport either throws too or drops the frame (thrown says which).
Call(method, params, thrown) ==
  /\ currentID < MaxCalls
  /\ clientWs \in Conns
  /\ cliSock[clientWs] = "open" => ~thrown /\ Len(c2s[clientWs]) < MaxChan
  /\ cliSock[clientWs] = "connecting" => thrown
  /\ currentID' = currentID + 1
  /\ calls' = calls \cup {currentID}
  /\ allocated' = Append(allocated, currentID)
  /\ callInfo' = Put(callInfo, currentID,
                     [method |-> method, params |-> params, sock |-> clientWs,
                      sent |-> cliSock[clientWs] = "open"])
  /\ c2s' = IF cliSock[clientWs] = "open"
            THEN [c2s EXCEPT ![clientWs] =
                    Append(@, stringify(RPCCall(currentID, method, params)))]
            ELSE c2s
  /\ promise' = Put(promise, currentID,
                    IF thrown
                    THEN Settle(Pending, "rejected", Str("WebSocket is not open"))
                    ELSE Pending)
  /\ cliLog' = <<>>
  /\ lastOp' = <<"call", currentID, method>>
  /\ ClientStep(SrvState)
  /\ UNCHANGED <<clientWs, cliSock, connected, wasConnected, respSeen, delivered>>

\* ws.onopen that emits onReconnected at every open.
ClientOnOpenAlwaysReconnected(k) ==
  /\ cliSock[k] = "connecting"
  /\ srvSock[k] # "idle"
  /\ cliSock' = [cliSock EXCEPT ![k] = "open"]
  /\ connected' = TRUE
  /\ wasConnected' = TRUE
  /\ cliLog' = <<"onConnected", "onReconnected">>
  /\ lastOp' = <<"open", k>>
  /\ ClientStep(SrvState)
  /\ UNCHANGED <<clientWs, calls, currentID, promise, c2s>>
  /\ UNCHANGED <<callInfo, respSeen, allocated, delivered>>

\* ws.onopen
ClientOnOpen(k) ==
  /\ cliSock[k] = "connecting"
  /\ srvSock[k] # "idle"
  /\ cliSock' = [cliSock EXCEPT ![k] = "open"]
  /\ connected' = TRUE
  /\ wasConnected' = TRUE
  /\ cliLog' = IF wasConnected THEN <<"onConnected", "onReconnected">>
               ELSE <<"onConnected">>
  /\ lastOp' = <<"open", k>>
  /\ ClientStep(SrvState)
  /\ UNCHANGED <<clientWs, calls, currentID, promise, c2s>>
  /\ UNCHANGED <<callInfo, respSeen, allocated, delivered>>

\* ws.onclose that rejects the calls that are pending.
ClientOnCloseRejects(k) ==
  /\ cliSock[k] \in {"connecting", "open", "closing"}
  /\ disconnect([cliSock EXCEPT ![k] = "closed"])
  /\ lastOp' = <<"clientClose", k>>
  /\ ClientStep([SrvState EXCEPT !.s2c[k] = <<>>])
  /\ promise' = [id \in DOMAIN promise |->
                  IF id \in calls
                  THEN Settle(promise[id], "rejected", Str("ConnectionLost"))
                  ELSE promise[id]]
  /\ calls' = {}
  /\ UNCHANGED <<clientWs, wasConnected, currentID, c2s>>
  /\ UNCHANGED <<callInfo, respSeen, allocated, delivered>>

\* ws.onclose: the socket is closed, whatever closed it; frames still in
\* flight to it are lost.
ClientOnClose(k) ==
  /\ cliSock[k] \in {"connecting", "open", "closing"}
  /\ disconnect([cliSock EXCEPT ![k] = "closed"])
  /\ lastOp' = <<"clientClose", k>>
  /\ ClientStep([SrvState EXCEPT !.s2c[k] = <<>>])
  /\ UNCHANGED <<clientWs, wasConnected, calls, currentID, promise, c2s>>
  /\ UNCHANGED <<callInfo, respSeen, allocated, delivered>>

\* ws.onerror; the transport closes a socket that failed.
ClientOnError(k) ==
  /\ cliSock[k] \in {"connecting", "open"}
  /\ disconnect([cliSock EXCEPT ![k] = "closing"])
  /\ lastOp' = <<"clientError", k>>
  /\ ClientStep(SrvState)
  /\ UNCHANGED <<clientWs, wasConnected, calls, currentID, promise, c2s>>
  /\ UNCHANGED <<callInfo, respSeen, allocated, delivered>>

\* reconnect() starting the ids of the new socket at 0 again.
ReconnectResetsID ==
  /\ clientWs \in Conns /\ clientWs < MaxConns
  /\ connected' = FALSE
  /\ clientWs' = clientWs + 1
  /\ cliSock' = [cliSock EXCEPT ![clientWs + 1] = "connecting"]
  /\ currentID' = 0
  /\ cliLog' = <<>>
  /\ lastOp' = <<"reconnect">>
  /\ ClientStep(SrvState)
  /\ UNCHANGED <<wasConnected, calls, promise, c2s>>
  /\ UNCHANGED <<callInfo, respSeen, allocated, delivered>>

\* reconnect(): createSocket makes the next socket.
Reconnect ==
  /\ clientWs \in Conns /\ clientWs < MaxConns
  /\ connected' = FALSE
  /\ clientWs' = clientWs + 1
  /\ cliSock' = [cliSock EXCEPT ![clientWs + 1] = "connecting"]
  /\ cliLog' = <<>>
  /\ lastOp' = <<"reconnect">>
  /\ ClientStep(SrvState)
  /\ UNCHANGED <<wasConnected, calls, currentID, promise, c2s>>
  /\ UNCHANGED <<callInfo, respSeen, allocated, delivered>>

\* close(): this.ws.close()
ClientClose ==
  /\ clientWs \in Conns
  /\ cliSock[clientWs] \in {"connecting", "open"}
  /\ cliSock' = closeSock(cliSock, clientWs)
  /\ cliLog' = <<>>
  /\ lastOp' = <<"close()">>
  /\ ClientStep(SrvState)
  /\ UNCHANGED <<clientWs, connected, wasConnected, calls, currentID, promise, c2s>>
  /\ UNCHANGED <<callInfo, respSeen, allocated, delivered>>

\* The events the client has a listener for: client.on('onMessage', ...).
ClientEvents == {"onMessage"}

\* onRPCResponse that calls the continuation of the oldest pending call,
\* whatever the id of the Response.
OnRPCResponseOldest(resp) ==
  IF calls # {}
  THEN LET id == CHOOSE i \in calls : \A j \in calls : i <= j
       IN /\ promise' = [promise EXCEPT ![id] =
                           Continue(@, resp.result,
                                    IF resp.error THEN resp.result ELSE Null)]
          /\ calls' = calls \ {id}
          /\ respSeen' = Put(respSeen, id, resp)
  ELSE UNCHANGED <<promise, calls, respSeen>>

\* RPCBase.onRPCResponse on the client: the continuation of the id, if there
\* is one, is called and deleted.
OnRPCResponse(resp) ==
  IF resp.id \in calls
  THEN /\ promise' = [promise EXCEPT ![resp.id] =
                        Continue(@, resp.result,
                                 IF resp.error THEN resp.result ELSE Null)]
       /\ calls' = calls \ {resp.id}
       /\ respSeen' = Put(respSeen, resp.id, resp)
  ELSE UNCHANGED <<promise, calls, respSeen>>

\* ws.onmessage of the client: JSON.parse, then onMessage, which has cases
\* for 'rpc', 'rpcResponse' and 'rpcEvent'; a parse error leads to disconnect().
\* No function is registered on the client; its event listeners are those of
\* ClientEvents.
ClientOnMessage(k) ==
  /\ cliSock[k] = "open"
  /\ s2c[k] # <<>>
  /\ LET frame == Head(s2c[k])
         data == parse(frame)
     IN /\ IF ~frame.ok
           THEN /\ disconnect(cliSock)
                /\ UNCHANGED <<promise, calls, respSeen, c2s>>
           ELSE /\ UNCHANGED <<connected, cliSock>>
                /\ cliLog' = <<>>
                /\ IF data.type = "rpcResponse"
                   THEN OnRPCResponse(data) /\ UNCHANGED c2s
                   ELSE IF data.type = "rpc"
                   THEN /\ c2s' = [c2s EXCEPT ![k] =
                                     Append(@, stringify(RPCError(data.id,
                                       Str(NotFoundMessage(data.method)))))]
                        /\ UNCHANGED <<promise, calls, respSeen>>
                   ELSE UNCHANGED <<promise, calls, respSeen, c2s>>
        /\ delivered' = IF frame.ok /\ data.type = "rpcEvent"
                            /\ data.method \in ClientEvents
                         THEN Append(delivered, [method |-> data.method,
                                                 params |-> data.params])
                         ELSE delivered
        /\ lastOp' = <<"clientMessage", k, frame.type>>
  /\ ClientStep([SrvState EXCEPT !.s2c[k] = Tail(@)])
  /\ UNCHANGED <<clientWs, wasConnected, currentID, callInfo, allocated>>

\* ------------------------------------------------------------------ server, receiving
\* ws.on('message') of the server for a frame of the RPCClient: JSON.parse,
\* then onMessage; a parse error leads to onDisconnect(ws).  The server has
\* issued no call and has no event listener, so a Response or an Event
\* changes nothing.
ServerOnMessage(c) ==
  /\ srvSock[c] = "open"
  /\ c2s[c] # <<>>
  /\ c2s' = [c2s EXCEPT ![c] = Tail(@)]
  /\ LET frame == Head(c2s[c])
         data == parse(frame)
     IN /\ IF ~frame.ok
           THEN SetSrv(onDisconnect(SrvState, c)) /\ UNCHANGED <<returned, heard>>
           ELSE IF data.type = "rpc"
           THEN \E out \in IF data.method \in Registered
                           THEN Outcomes(data.method, data.params)
                           ELSE {[k |-> "none", v |-> Undefined]} :
                  /\ SetSrv(onRPCMessage(SrvState, c, data, out))
                  /\ returned' = IF data.method \in Registered
                                    /\ c \in DOMAIN socketData
                                 THEN Put(returned, data.id, out) ELSE returned
                  /\ UNCHANGED heard
           ELSE IF data.type = "ping"
           THEN /\ SetSrv(onPing(SrvState, c))
                /\ heard' = Put(heard, c, now)
                /\ UNCHANGED returned
           ELSE SetSrv(SrvState) /\ UNCHANGED <<returned, heard>>
        /\ lastOp' = <<"serverMessage", c, frame.type, frame.id>>
  /\ cliLog' = <<>>
  /\ UNCHANGED <<groupRemoved, now, attached, cliVars>>
  /\ UNCHANGED <<callInfo, respSeen, allocated, hbClosed, delivered>>

\* ------------------------------------------------------------------ calls
\* One RPCClient on its first socket and the RPCServer, with every kind of
\* function; no heartbeat interval passes.
CallParams(method) ==
  IF method = "echo" THEN {<<Str("hello")>>, <<Undefined>>} ELSE {<<>>}

InitRpc == InitState(Conns)

NextRpc ==
  \/ \E m \in SyncRegistered \cup Unregistered, t \in BOOLEAN :
       \E p \in CallParams(m) : Call(m, p, t)
  \/ \E k \in Conns : ClientOnOpen(k)
  \/ \E k \in Conns : ClientOnClose(k)
  \/ \E k \in Conns : ClientOnError(k)
  \/ \E k \in Conns : ClientOnMessage(k)
  \/ ClientClose
  \/ \E c \in Conns : Connect(c)
  \/ \E c \in Conns, e \in {"close", "error"} : SocketClose(c, e)
  \/ \E c \in Conns : ServerOnMessage(c)

SpecRpc == InitRpc /\ [][NextRpc]_vars

\* The transport delivers the frames of an open socket, and the event loop
\* runs the message handlers.
SpecRpcFair ==
  /\ SpecRpc
  /\ \A c \in Conns : WF_vars(ServerOnMessage(c)) /\ WF_vars(ClientOnMessage(c))

\* ------------------------------------------------------------------ client lifecycle
\* One RPCClient over its successive sockets, calling echo, and the
\* RPCServer; no heartbeat interval passes.
NextClient ==
  \/ \E t \in BOOLEAN : Call("echo", <<Str("hello")>>, t)
  \/ \E k \in Conns : ClientOnOpen(k)
  \/ \E k \in Conns : ClientOnClose(k)
  \/ \E k \in Conns : ClientOnError(k)
  \/ \E k \in Conns : ClientOnMessage(k)
  \/ Reconnect
  \/ ClientClose
  \/ \E c \in Conns : Connect(c)
  \/ \E c \in Conns, e \in {"close", "error"} : SocketClose(c, e)
  \/ \E c \in Conns : ServerOnMessage(c)

SpecClient == InitRpc /\ [][NextClient]_vars

\* ------------------------------------------------------------------ claims on calls
\* The call id was sent on an open socket to a function that returns.
SentToSync(id) ==
  /\ id \in DOMAIN callInfo
  /\ callInfo[id].sent
  /\ callInfo[id].method \in {"echo", "compute"}

\* The connection of call id is gone, on either side.
ConnLost(id) ==
  \/ cliSock[callInfo[id].sock] # "open"
  \/ srvSock[callInfo[id].sock] = "closed"

\* The call was resolved, or its connection is gone.
Concluded(id) ==
  /\ id \in DOMAIN promise
  /\ promise[id].state = "resolved" \/ ConnLost(id)

\* What JSON carries of a value: strings, null and an undefined result as
\* they are, NaN as null.
JsonOf(r) == IF r.t = "number" THEN Null ELSE r

C2Message(method) ==
  IF method = "nope" THEN Str("Method 'nope' not found")
  ELSE Str("Method 'missing' not found")

\* C2: on a Call of a method without a registered function the server sends,
\* in the step that receives it, one error Response for that id and invokes
\* no function; the caller's promise is never resolved and, once the
\* Response has arrived, is rejected with "Method '<m>' not found".
C2_UnregisteredRejected ==
  /\ [][\A c \in Conns :
          (/\ ServerOnMessage(c)
           /\ Head(c2s[c]).type = "rpc"
           /\ Head(c2s[c]).method \in Unregistered) =>
            /\ sent'[c] = <<stringify(RPCError(Head(c2s[c]).id,
                                               C2Message(Head(c2s[c]).method)))>>
            /\ returned' = returned]_vars
  /\ [](\A id \in DOMAIN callInfo :
          callInfo[id].method \in Unregistered =>
            /\ id \notin DOMAIN returned
            /\ promise[id].state # "resolved"
            /\ id \in DOMAIN respSeen =>
                 promise[id] = [state |-> "rejected",
                                value |-> C2Message(callInfo[id].method),
                                settled |-> 1])

\* Calls of both unregistered methods were answered and rejected.
C2_Witness ==
  /\ DOMAIN respSeen = {0, 1}
  /\ callInfo[0].method = "nope" /\ callInfo[1].method = "missing"
  /\ promise[0].state = "rejected"
  /\ promise[0].value = Str("Method 'nope' not found")
  /\ promise[1].state = "rejected"
  /\ promise[1].value = Str("Method 'missing' not found")

\* C3, as claimed: a Response with the error flag set that arrives for a
\* pending call rejects the call with the message it carries, whatever the
\* message is.
C3_ErrorFlagRejects ==
  \A id \in DOMAIN respSeen :
    respSeen[id].error =>
      /\ promise[id].state = "rejected"
      /\ promise[id].value = respSeen[id].result

\* C4, as claimed: a call sent on a socket that has closed since is not
\* pending any more.
C4_ClosedFailsPending ==
  \A id \in DOMAIN promise :
    callInfo[id].sent /\ cliSock[callInfo[id].sock] = "closed" =>
      promise[id].state # "pending"

\* C5: the ids callRPC allocates start at 0 and increase strictly, over
\* calls, responses, disconnects and reconnects; the pending ids are among
\* them.
C5_IdsStrictlyIncrease ==
  /\ allocated # <<>> => allocated[1] = 0
  /\ \A i, j \in 1..Len(allocated) : i < j => allocated[i] < allocated[j]
  /\ calls \subseteq {allocated[i] : i \in 1..Len(allocated)}

\* A call is pending on the first socket, the client has reconnected, and a
\* second call was issued on the second socket.
C5_Witness ==
  /\ allocated = <<0, 1>>
  /\ calls = {0, 1}
  /\ callInfo[0].sock = 1 /\ callInfo[0].sent
  /\ callInfo[1].sock = 2 /\ callInfo[1].sent

\* ------------------------------------------------------------------ heartbeat
\* The function of 'auth' without the look-up of the connection's data.
authResumeNoRecheck(st, ws, userInfo) ==
  IF userInfo = NoUser THEN [st |-> st, result |-> Undefined]
  ELSE IF ws \notin DOMAIN st.socketData
  THEN [st |-> userConnected(st, userInfo), result |-> Str(userInfo)]
  ELSE LET old == st.socketData[ws].userId
           st1 == IF old # NoUser THEN userDisconnected(st, old) ELSE st
       IN [st |-> userConnected(
                    [st1 EXCEPT !.socketData[ws].userId = userInfo],
                    userInfo),
           result |-> Str(userInfo)]

\* The function of 'auth' without userDisconnected for the user it had.
authResumeKeepsOld(st, ws, userInfo) ==
  IF userInfo = NoUser THEN [st |-> st, result |-> Undefined]
  ELSE IF ws \notin DOMAIN st.socketData THEN [st |-> st, result |-> Undefined]
  ELSE [st |-> userConnected(
                 [st EXCEPT !.socketData[ws].userId = userInfo], userInfo),
        result |-> Str(userInfo)]

\* The function registerJWTAuth registers, from the point where authFunction
\* has answered userInfo (NoUser for undefined) to its return value; the
\* UserInfo object is written as its id.
authResume(st, ws, userInfo) ==
  IF userInfo = NoUser THEN [st |-> st, result |-> Undefined]
  ELSE IF ws \notin DOMAIN st.socketData THEN [st |-> st, result |-> Undefined]
  ELSE LET old == st.socketData[ws].userId
           st1 == IF old # NoUser THEN userDisconnected(st, old) ELSE st
       IN IF st1.err # "" THEN [st |-> st1, result |-> Undefined]
          ELSE [st |-> userConnected(
                         [st1 EXCEPT !.socketData[ws].userId = userInfo],
                         userInfo),
                result |-> Str(userInfo)]

\* The callback closing a connection whose pong came with the Ping.
pingTimerClosesOnEqual(st, ws) ==
  IF st.socketData[ws].lastPong <= st.socketData[ws].lastPing
  THEN onDisconnect([st EXCEPT !.srvSock[ws] = "closed"], ws)
  ELSE pingClient(st, ws)

\* The callback pingClient hands to setTimeout.
pingTimer(st, ws) ==
  IF st.socketData[ws].lastPong < st.socketData[ws].lastPing
  THEN onDisconnect([st EXCEPT !.srvSock[ws] = "closed"], ws)
  ELSE pingClient(st, ws)

\* One RPCClient on socket 1, peers that are no RPCClient on the others.
InitHeartbeat == InitState({1})

\* The Call of 'auth' of a peer that is no RPCClient, once authFunction has
\* answered: the rest of the function, and the Response sendResponse sends
\* when the promise settles.
Auth(c, userInfo) ==
  /\ c \notin attached
  /\ srvSock[c] # "idle"
  /\ LET r == authResume(SrvState, c, userInfo)
     IN SetSrv(IF r.st.err # "" THEN sendError(r.st, c, 0, Str(r.st.err))
               ELSE sendResponse(r.st, c, 0, r.result))
  /\ lastOp' = <<"auth", c, userInfo>>
  /\ cliLog' = <<>>
  /\ UNCHANGED <<groupRemoved, now, c2s, attached, cliVars, histVars>>

\* A Ping of a peer that is no RPCClient reaches onMessage.
PeerPing(c) ==
  /\ c \notin attached
  /\ srvSock[c] = "open"
  /\ SetSrv(onPing(SrvState, c))
  /\ heard' = Put(heard, c, now)
  /\ lastOp' = <<"ping", c>>
  /\ cliLog' = <<>>
  /\ UNCHANGED <<groupRemoved, now, c2s, attached, cliVars>>
  /\ UNCHANGED <<callInfo, returned, respSeen, allocated, hbClosed, delivered>>

\* The timeout of pingClient fires, at the time it was set for.
TimerFire(c) ==
  /\ c \in DOMAIN timers
  /\ timers[c] = now
  /\ SetSrv(pingTimer(SrvState, c))
  /\ hbClosed' = IF socketData[c].lastPong < socketData[c].lastPing
                 THEN Put(hbClosed, c, [userId |-> socketData[c].userId,
                                        groups |-> socketData[c].groups])
                 ELSE hbClosed
  /\ lastOp' = <<"timeout", c>>
  /\ cliLog' = <<>>
  /\ UNCHANGED <<groupRemoved, now, c2s, attached, cliVars>>
  /\ UNCHANGED <<callInfo, returned, respSeen, allocated, heard, delivered>>

\* The close event of a socket the server has closed reaches the client.
ClientSeesClose(k) ==
  /\ srvSock[k] = "closed"
  /\ ClientOnClose(k)

\* The RPCClient has handled all that has reached it.
ClientIdle ==
  \A k \in attached :
    srvSock[k] = "open" => cliSock[k] = "open" /\ s2c[k] = <<>>

\* Time passes: timers fire when they are due, and the RPCClient is live and
\* handles what it receives before the clock moves.
Tick ==
  /\ now < MaxTime
  /\ \A c \in DOMAIN timers : timers[c] > now
  /\ ClientIdle
  /\ now' = now + 1
  /\ SetSrv(SrvState)
  /\ lastOp' = <<"tick">>
  /\ cliLog' = <<>>
  /\ UNCHANGED <<groupRemoved, c2s, attached, cliVars, histVars>>

NextHeartbeat ==
  \/ \E c \in Conns : Connect(c)
  \/ \E c \in Conns, u \in Users \cup {NoUser} : Auth(c, u)
  \/ \E c \in Conns, g \in Groups : AddToGroup(c, g)
  \/ \E c \in Conns : PeerPing(c)
  \/ \E c \in Conns : TimerFire(c)
  \/ \E k \in Conns : ClientOnOpen(k)
  \/ \E k \in Conns : ClientOnMessage(k)
  \/ \E k \in Conns : ClientSeesClose(k)
  \/ Tick

SpecHeartbeat == InitHeartbeat /\ [][NextHeartbeat]_vars

\* C9: an open connection has been accepted or has sent a Ping within the
\* last two heartbeat intervals, timers firing when they are due; and the
\* timeout that closes a connection removes it from the server's sockets
\* and from every group, and takes one from the presence count of its user.
C9_SilentPeerClosedInTwoIntervals ==
  /\ [](\A c \in Conns : srvSock[c] = "open" => now - heard[c] <= 2 * PingTimeout)
  /\ [][\A c \in Conns :
          (/\ TimerFire(c)
           /\ socketData[c].lastPong < socketData[c].lastPing) =>
            /\ srvSock'[c] = "closed"
            /\ c \notin clients' /\ c \notin DOMAIN socketData'
            /\ c \notin DOMAIN timers'
            /\ \A g \in DOMAIN groups' : c \notin groups'[g]
            /\ \A u \in Users :
                 Connections(users', u) =
                   Connections(users, u)
                     - (IF socketData[c].userId = u THEN 1 ELSE 0)]_vars

\* A peer that authenticated, joined a group and answered the first Ping at
\* once was closed by the timeout two intervals later.
C9_Witness ==
  /\ lastOp = <<"timeout", 2>>
  /\ 2 \in DOMAIN hbClosed
  /\ hbClosed[2] = [userId |-> "u1", groups |-> {"room1"}]
  /\ now - heard[2] = 2 * PingTimeout
  /\ srvSock[2] = "closed"
  /\ "room1" \notin DOMAIN groups
  /\ Connections(users, "u1") = 0

\* C10, as claimed: the RPCClient answers a Ping it receives with a Ping of
\* its own, and the heartbeat timeout never closes the connection of an
\* RPCClient that handles all it receives.
C10_ClientAnswersPing ==
  /\ [][\A k \in Conns :
          (/\ ClientOnMessage(k)
           /\ Head(s2c[k]).type = "ping") =>
            c2s'[k] = Append(c2s[k], stringify(Ping))]_vars
  /\ [](DOMAIN hbClosed \cap attached = {})

\* ------------------------------------------------------------------ teardown
\* The time the teardown specification runs to: the first timeout.
TeardownTime == PingTimeout + 1

\* A frame JSON.parse throws on arrives from a peer that is no RPCClient:
\* the catch of ws.on('message') calls onDisconnect.
PeerGarbage(c) ==
  /\ c \notin attached
  /\ srvSock[c] # "idle"
  /\ ~Garbage.ok
  /\ SetSrv(onDisconnect(SrvState, c))
  /\ lastOp' = <<"garbage", c>>
  /\ cliLog' = <<>>
  /\ UNCHANGED <<groupRemoved, now, c2s, attached, cliVars, histVars>>

\* The RPCServer alone, its peers no RPCClient and silent: every event that
\* leads to onDisconnect, in any order, with one user and one group.
NextTeardown ==
  \/ \E c \in Conns : Connect(c)
  \/ \E c \in Conns : Auth(c, "u1")
  \/ \E c \in Conns : AddToGroup(c, "room1")
  \/ OnGroupRemoved("room1", "cbA")
  \/ AddListener("u1", "f")
  \/ \E c \in Conns, e \in {"close", "error"} : SocketClose(c, e)
  \/ \E c \in Conns : PeerGarbage(c)
  \/ \E c \in Conns : TimerFire(c)
  \/ now < TeardownTime /\ Tick

SpecTeardown == InitServer /\ [][NextTeardown]_vars

\* An event of socket c that leads to onDisconnect(c).
Trigger(c) ==
  \/ SocketClose(c, "close")
  \/ SocketClose(c, "error")
  \/ PeerGarbage(c)
  \/ TimerFire(c) /\ socketData[c].lastPong < socketData[c].lastPing

\* The step changes nothing the server holds and calls nothing.
ServerUnchanged ==
  /\ socketData' = socketData /\ clients' = clients /\ groups' = groups
  /\ timers' = timers /\ users' = users
  /\ fired' = NoFired /\ notified' = NoNotified /\ sent' = NoSent

\* C11: of the transport errors, closes, undecodable frames and heartbeat
\* timeouts of one connection only the first tears it down, taking at most
\* one from any presence count and firing each group's callback at most
\* once; every later one leaves the server as it is, and no timeout is left
\* pending for a connection that was torn down.
C11_TeardownAtMostOnce ==
  /\ [][\A c \in Conns :
          Trigger(c) =>
            IF c \in DOMAIN socketData
            THEN /\ c \notin DOMAIN socketData'
                 /\ \A u \in Users :
                      Connections(users, u) - Connections(users', u) \in {0, 1}
                 /\ \A g \in Groups : Len(fired'[g]) <= 1
            ELSE ServerUnchanged]_vars
  /\ [](DOMAIN timers \subseteq DOMAIN socketData)

\* The heartbeat timeout has torn down an authenticated member of a group,
\* and the close event of the socket that follows changed nothing.
C11_Witness ==
  /\ lastOp = <<"close", 1>>
  /\ 1 \in DOMAIN hbClosed
  /\ hbClosed[1] = [userId |-> "u1", groups |-> {"room1"}]
  /\ 1 \notin DOMAIN socketData
  /\ fired = NoFired
  /\ "room1" \in DOMAIN groupRemoved

\* C18: the teardown of a connection that an error, a close, an undecodable
\* frame or the heartbeat timeout starts leaves the connection without data,
\* out of the client set and of every group, without a pending timeout, its
\* socket closed, and the presence count of its user one lower; and at all
\* times only connections that have data are in the client set, in a group
\* or waited for by a timeout.
C18_TeardownLeavesNothing ==
  /\ [][\A c \in Conns :
          Trigger(c) /\ c \in DOMAIN socketData =>
            /\ c \notin DOMAIN socketData' /\ c \notin clients'
            /\ c \notin DOMAIN timers'
            /\ srvSock'[c] = "closed"
            /\ \A g \in DOMAIN groups' : c \notin groups'[g]
            /\ \A u \in Users :
                 Connections(users', u) =
                   Connections(users, u)
                     - (IF socketData[c].userId = u THEN 1 ELSE 0)]_vars
  /\ [](/\ clients = DOMAIN socketData
        /\ DOMAIN timers \subseteq DOMAIN socketData
        /\ \A g \in DOMAIN groups : groups[g] \subseteq DOMAIN socketData)

\* An undecodable frame has torn down the only member of room1, the only
\* connection of u1: the group's callback fired, the listener of u1 was told
\* false, and nothing of the connection is left.
C18_Witness ==
  /\ lastOp = <<"garbage", 2>>
  /\ fired["room1"] = <<"cbA">>
  /\ notified["f"] = <<FALSE>>
  /\ 2 \notin DOMAIN socketData /\ 2 \notin DOMAIN timers
  /\ "room1" \notin DOMAIN groups
  /\ Connections(users, "u1") = 0
  /\ srvSock[2] = "closed"

\* ------------------------------------------------------------------ presence, any caller
RECURSIVE SumFresh(_, _)
SumFresh(u, keys) ==
  IF keys = {} THEN 0
  ELSE LET k == CHOOSE x \in keys : TRUE
       IN u[k].fresh + SumFresh(u, keys \ {k})

\* The closures addListener returned for the user that were not called yet.
Outstanding(u, user) == SumFresh(u, {k \in ClosureKeys : k.user = user})

\* ServerUsers with a caller that keeps to no contract: userDisconnected for
\* a user that was never connected, an unsubscribe closure called again.
\* The last step records the message of the Error it threw, if any.
Disconnected(u) ==
  /\ u \in DOMAIN users => users[u].connections >= 0
  /\ LET st == userDisconnected(SrvState, u)
     IN SetSrv(st) /\ lastOp' = <<"userDisconnected", u, st.err>>
  /\ cliLog' = <<>>
  /\ UNCHANGED <<groupRemoved, now, c2s, attached, cliVars, histVars>>

\* The first call of a closure addListener returned.
UnsubscribeFirst(k) ==
  /\ unsubs[k].fresh > 0
  /\ LET st == unsubscribe([SrvState EXCEPT !.unsubs[k].fresh = @ - 1,
                                            !.unsubs[k].spent = TRUE], k)
     IN SetSrv(st) /\ lastOp' = <<"unsubscribe", k, st.err>>
  /\ cliLog' = <<>>
  /\ UNCHANGED <<groupRemoved, now, c2s, attached, cliVars, histVars>>

\* A later call of a closure that was called before.
UnsubscribeAgain(k) ==
  /\ unsubs[k].spent
  /\ LET st == unsubscribe(SrvState, k)
     IN SetSrv(st) /\ lastOp' = <<"unsubscribeAgain", k, st.err>>
  /\ cliLog' = <<>>
  /\ UNCHANGED <<groupRemoved, now, c2s, attached, cliVars, histVars>>

NextUsersAny ==
  \/ Connections(users, "u1") < MaxRef /\ UserConnected("u1")
  \/ Disconnected("u1")
  \/ \E l \in Listeners : Outstanding(unsubs, "u1") < MaxRef /\ AddListener("u1", l)
  \/ \E k \in ClosureKeys : k.user = "u1" /\ UnsubscribeFirst(k)
  \/ \E k \in ClosureKeys : k.user = "u1" /\ UnsubscribeAgain(k)

SpecUsersAny == InitUsers /\ [][NextUsersAny]_vars

\* C13, as claimed: userDisconnected or an unsubscribe for a user without an
\* entry throws and leaves the map as it is, and no entry ever has a
\* connection count or a reference count below zero.
C13_UnderflowFailsLoudly ==
  /\ [][\A u \in Users :
          (/\ u \notin DOMAIN users
           /\ \/ Disconnected(u)
              \/ \E k \in ClosureKeys :
                   k.user = u /\ (UnsubscribeFirst(k) \/ UnsubscribeAgain(k))) =>
            /\ users' = users
            /\ lastOp'[3] = "User not found"]_vars
  /\ [](\A u \in DOMAIN users :
          users[u].connections >= 0 /\ users[u].refCount >= 0)

AsyncSettle(id) ==
  /\ id \in DOMAIN returned
  /\ returned[id].k \in {"resolves", "rejects", "rejectsOther"}
  /\ SetSrv(promiseSettled(SrvState, callInfo[id].sock, id, returned[id]))
  /\ returned' = [returned EXCEPT ![id].k =
                    CASE @ = "resolves" -> "resolved"
                      [] @ = "rejects" -> "rejected"
                      [] OTHER -> "rejectedOther"]
  /\ lastOp' = <<"settled", id>>
  /\ cliLog' = <<>>
  /\ UNCHANGED <<groupRemoved, now, c2s, attached, cliVars>>
  /\ UNCHANGED <<callInfo, respSeen, allocated, heard, hbClosed, delivered>>

\* One RPCClient on its first socket calling functions that throw or return
\* a promise.
NextAsync ==
  \/ \E m \in {"fail", "later"}, t \in BOOLEAN : Call(m, <<>>, t)
  \/ \E k \in Conns : ClientOnOpen(k)
  \/ \E k \in Conns : ClientOnClose(k)
  \/ \E k \in Conns : ClientOnMessage(k)
  \/ \E c \in Conns : Connect(c)
  \/ \E c \in Conns : SocketClose(c, "close")
  \/ \E c \in Conns : ServerOnMessage(c)
  \/ \E id \in 0..(MaxCalls - 1) : AsyncSettle(id)

SpecAsync == InitRpc /\ [][NextAsync]_vars

\* The message the claim gives the error Response of a failed function: the
\* message of the Error, "Unknown Error" when there is none.
C12Message(out) ==
  IF out.k \in {"throwError", "rejects", "rejected"} /\ out.v # Str("")
  THEN out.v ELSE Str("Unknown Error")

\* C12, as claimed: when a registered function throws, or the promise it
\* returned is rejected, the server sends in that step one error Response
\* for the id with the error's message, "Unknown Error" when the error has
\* none, and the connection keeps its data and stays open.
C12_FailureAnswered ==
  /\ [][\A c \in Conns :
          (/\ ServerOnMessage(c)
           /\ c \in DOMAIN socketData
           /\ Head(c2s[c]).type = "rpc"
           /\ Head(c2s[c]).method = "fail") =>
            /\ sent'[c] = <<stringify(RPCError(Head(c2s[c]).id,
                                C12Message(returned'[Head(c2s[c]).id])))>>
            /\ socketData' = socketData /\ srvSock' = srvSock]_vars
  /\ [][\A id \in DOMAIN returned :
          AsyncSettle(id) /\ returned[id].k \in {"rejects", "rejectsOther"} =>
            /\ sent'[callInfo[id].sock] =
                 <<stringify(RPCError(id, C12Message(returned[id])))>>
            /\ socketData' = socketData /\ srvSock' = srvSock]_vars

\* ------------------------------------------------------------------ claims on the client's sockets
\* C15, as claimed: reconnect() closes the socket the client had, leaves the
\* pending calls, their promises and the id counter as they were, and the
\* client's connected flag is set only while its current socket is open.
C15_ReconnectTearsDown ==
  /\ [][Reconnect =>
          /\ cliSock'[clientWs] \in {"closing", "closed"}
          /\ ~connected'
          /\ calls' = calls /\ promise' = promise /\ currentID' = currentID]_vars
  /\ [](connected => cliSock[clientWs] = "open")

\* The step is a transport-open event of the client.
SomeOpen == \E k \in Conns : ClientOnOpen(k)

\* C16: the client is marked as having been connected exactly from its
\* first open on; an open of a client not so marked emits onConnected alone,
\* an open of a marked client emits onConnected and then onReconnected, and
\* no other step emits onReconnected.
C16_ReconnectedAfterFirstOpen ==
  /\ ~wasConnected
  /\ [][/\ SomeOpen =>
             /\ wasConnected'
             /\ cliLog' = IF wasConnected
                          THEN <<"onConnected", "onReconnected">>
                          ELSE <<"onConnected">>
        /\ ~SomeOpen =>
             /\ wasConnected' = wasConnected
             /\ \A i \in 1..Len(cliLog') : cliLog'[i] # "onReconnected"]_vars

\* The second socket of the client has opened after the first had, and both
\* signals were emitted.
C16_Witness ==
  /\ lastOp = <<"open", 2>>
  /\ cliSock[1] \in {"closing", "closed"}
  /\ cliLog = <<"onConnected", "onReconnected">>
  /\ connected

\* The step is a teardown of the client: disconnect() called from onclose,
\* onerror or the catch of onmessage.
SomeDisconnect ==
  \/ \E k \in Conns : ClientOnClose(k) \/ ClientOnError(k)
  \/ \E k \in Conns : ClientOnMessage(k) /\ ~Head(s2c[k]).ok

\* C19: disconnect() settles no call, and a call that is pending when the
\* socket it was sent on has closed is pending after every later step.
C19_TeardownSettlesNothing ==
  /\ [][SomeDisconnect => promise' = promise]_vars
  /\ [][\A id \in DOMAIN promise :
          (/\ promise[id].state = "pending"
           /\ cliSock[callInfo[id].sock] = "closed") =>
            promise'[id] = promise[id]]_vars

\* The call sent on the first socket is pending after that socket closed,
\* the client reconnected and a later call was resolved.
C19_Witness ==
  /\ DOMAIN promise = {0, 1}
  /\ callInfo[0].sent /\ callInfo[0].sock = 1 /\ cliSock[1] = "closed"
  /\ promise[0] = Pending
  /\ callInfo[1].sock = 2 /\ promise[1].state = "resolved"

\* ------------------------------------------------------------------ correlation
\* A Response reaches the socket of the client from a peer that answers as
\* it likes: any id, pending or not, any result, with or without the error
\* flag.
PeerResponse(k, id, result, error) ==
  /\ cliSock[k] = "open"
  /\ Len(s2c[k]) < MaxChan
  /\ SetSrv([SrvState EXCEPT !.s2c[k] =
               Append(@, stringify(IF error THEN RPCError(id, result)
                                   ELSE RPCResponse(id, result)))])
  /\ lastOp' = <<"peerResponse", k, id>>
  /\ cliLog' = <<>>
  /\ UNCHANGED <<groupRemoved, now, c2s, attached, cliVars, histVars>>

\* One RPCClient with calls outstanding, each sent on the open socket, and a
\* peer that sends Responses in any order, more than once, and for ids that
\* are not pending.
NextCorrelate ==
  \/ clientWs \in Conns /\ cliSock[clientWs] = "open"
       /\ Call("echo", <<Str("hello")>>, FALSE)
  \/ \E k \in Conns : ClientOnOpen(k)
  \/ \E k \in Conns : ClientOnMessage(k)
  \/ \E c \in Conns : Connect(c)
  \/ \E k \in Conns, id \in 0..MaxCalls, r \in {Str("hello"), Str("")},
        e \in BOOLEAN : PeerResponse(k, id, r, e)

SpecCorrelate == InitRpc /\ [][NextCorrelate]_vars

\* C20: a Response the client handles settles the pending call of its id,
\* with its result, and no other call; a Response without the error flag
\* resolves; a Response whose id is not pending, because it never was or
\* because the call was settled, changes no promise and no pending call; no
\* promise is settled twice.
C20_CorrelatedById ==
  /\ [][\A k \in Conns :
          (/\ ClientOnMessage(k)
           /\ Head(s2c[k]).ok
           /\ Head(s2c[k]).type = "rpcResponse") =>
            LET resp == parse(Head(s2c[k]))
            IN IF resp.id \in calls
               THEN /\ calls' = calls \ {resp.id}
                    /\ promise'[resp.id].state # "pending"
                    /\ promise'[resp.id].value = resp.result
                    /\ ~resp.error => promise'[resp.id].state = "resolved"
                    /\ \A j \in DOMAIN promise \ {resp.id} :
                         promise'[j] = promise[j]
               ELSE calls' = calls /\ promise' = promise]_vars
  /\ [](\A id \in DOMAIN promise : promise[id].settled <= 1)

\* With two calls outstanding a Response for the second was handled first:
\* the second call is resolved with its result, the first is still pending.
C20_Witness ==
  /\ lastOp = <<"clientMessage", 1, "rpcResponse">>
  /\ DOMAIN promise = {0, 1}
  /\ promise[0] = Pending /\ calls = {0}
  /\ promise[1] = [state |-> "resolved", value |-> Str("hello"), settled |-> 1]
  /\ respSeen[1].result = Str("hello")
  /\ s2c[1] = <<>>
  /\ cliLog = <<>>

\* ------------------------------------------------------------------ chat
\* The arguments of the calls of the chat example.
ChatParams(method) ==
  IF method = "joinRoom" THEN <<Str("room1")>>
  ELSE <<Str("room1"), Str("Hello world")>>

\* The chat example: one RPCClient that joins room1 and sends messages to
\* it over a socket that stays open, and peers that are no RPCClient, which
\* the server puts in the rooms and which come and go.
InitChat == InitState({1})

NextChat ==
  \/ \E m \in ChatRegistered :
       /\ clientWs \in Conns /\ cliSock[clientWs] = "open"
       /\ Call(m, ChatParams(m), FALSE)
  \/ \E k \in Conns : ClientOnOpen(k)
  \/ \E k \in Conns : ClientOnMessage(k)
  \/ \E c \in Conns : Connect(c)
  \/ \E c \in Conns : ServerOnMessage(c)
  \/ \E c \in Conns \ attached, g \in Groups : AddToGroup(c, g)
  \/ \E c \in Conns \ attached : SocketClose(c, "close")

SpecChat == InitChat /\ [][NextChat]_vars

\* The calls of message the client made after a call of joinRoom and that
\* are resolved.
ResolvedAfterJoin ==
  {id \in DOMAIN promise :
     /\ callInfo[id].method = "message"
     /\ promise[id].state = "resolved"
     /\ \E j \in DOMAIN callInfo : j < id /\ callInfo[j].method = "joinRoom"}

\* C17: handling a call of message from a member of the room, the server
\* passes to the caller's socket the Event first and the Response second;
\* and when the promise of such a call is resolved the client's listener
\* has been called with the Event of that call.
C17_EventBeforeResponse ==
  /\ [][\A c \in Conns :
          (/\ ServerOnMessage(c)
           /\ Head(c2s[c]).type = "rpc"
           /\ Head(c2s[c]).method = "message"
           /\ "room1" \in DOMAIN groups
           /\ c \in groups["room1"]) =>
            sent'[c] = <<stringify(RPCEvent("onMessage", ChatParams("message"))),
                         stringify(RPCResponse(Head(c2s[c]).id, Undefined))>>]_vars
  /\ [](/\ Cardinality(ResolvedAfterJoin) <= Len(delivered)
        /\ \A i \in 1..Len(delivered) :
             delivered[i] = [method |-> "onMessage",
                             params |-> ChatParams("message")])

\* The client joined room1 and sent a message: its listener got the Event,
\* and the step after resolved the call.
C17_Witness ==
  /\ lastOp = <<"clientMessage", 1, "rpcResponse">>
  /\ DOMAIN promise = {0, 1}
  /\ callInfo[0].method = "joinRoom" /\ callInfo[1].method = "message"
  /\ promise[1] = [state |-> "resolved", value |-> Undefined, settled |-> 1]
  /\ delivered = <<[method |-> "onMessage", params |-> ChatParams("message")]>>

\* ------------------------------------------------------------------ one Response per Call
\* One RPCClient on its first socket calling functions of every kind: one
\* that returns, one that throws, one that returns a promise (resolved or
\* rejected later), and one that is not registered.
NextRespond ==
  \/ \E m \in {"echo", "nope"}, t \in BOOLEAN :
       \E p \in CallParams(m) : Call(m, p, t)
  \/ NextAsync

SpecRespond == InitRpc /\ [][NextRespond]_vars

\* The Responses among the frames handed to a socket.
Responses(frames) == SelectSeq(frames, LAMBDA f : f.type = "rpcResponse")

\* The outcomes of a function whose promise has not settled yet.
Unsettled == {"resolves", "rejects", "rejectsOther"}

\* C21: in every step the server hands a socket at most one Response, and
\* only (a) in the step that handles a Call received on that socket, for the
\* id of that Call, and then no promise of that Call is left to settle, or
\* (b) in the step in which the promise of a Call received on that socket
\* settles, for the id of that Call; a promise settles once, and becomes
\* pending again only when another Call with its id is received.  So a
\* Response carries the id of a received Call and each Call gets at most one.
C21_OneResponsePerCall ==
  /\ [][\A c \in Conns :
          LET rs == Responses(sent'[c])
          IN /\ Len(rs) <= 1
             /\ rs # <<>> =>
                  \/ /\ ServerOnMessage(c)
                     /\ Head(c2s[c]).type = "rpc"
                     /\ Head(c2s[c]).id = rs[1].id
                     /\ rs[1].id \in DOMAIN returned' =>
                          returned'[rs[1].id].k \notin Unsettled
                  \/ /\ AsyncSettle(rs[1].id)
                     /\ callInfo[rs[1].id].sock = c
                     /\ returned[rs[1].id].k \in Unsettled
                     /\ returned'[rs[1].id].k \notin Unsettled]_vars
  /\ [][\A id \in DOMAIN returned' :
          (/\ returned'[id].k \in Unsettled
           /\ id \in DOMAIN returned => returned[id].k \notin Unsettled) =>
            \E c \in Conns : /\ ServerOnMessage(c)
                             /\ Head(c2s[c]).type = "rpc"
                             /\ Head(c2s[c]).id = id]_vars

\* The function of call 0 returned and the rejected promise of call 1 has
\* just been answered with one error Response.
C21_Witness ==
  /\ lastOp = <<"settled", 1>>
  /\ returned[1].k = "rejected"
  /\ \E c \in Conns : sent[c] = <<stringify(RPCError(1, Str("boom")))>>
  /\ 0 \in DOMAIN returned /\ returned[0].k = "return"

\* ------------------------------------------------------------------ the probe cycle
\* C22: accepting a connection sends it one Ping, records the time as
\* lastPing and starts the one timer of the connection; a timer that fires
\* closes the connection and tears it down exactly when lastPong < lastPing,
\* and otherwise sends the next Ping, records its time and starts the next
\* timer.  A timer is started only by these two steps, so a connection with
\* data has exactly one pending timer and a torn-down one has none; and a
\* peer whose last pong is not older than the last Ping survives the timer.
C22_ProbeCycle ==
  /\ [][\A c \in Conns :
          Connect(c) =>
            /\ c \notin DOMAIN timers
            /\ sent'[c] = <<stringify(Ping)>>
            /\ socketData'[c].lastPing = now
            /\ timers' = Put(timers, c, now + PingTimeout)]_vars
  /\ [][\A c \in Conns :
          TimerFire(c) =>
            IF socketData[c].lastPong < socketData[c].lastPing
            THEN /\ srvSock'[c] = "closed"
                 /\ c \notin DOMAIN socketData' /\ c \notin clients'
                 /\ c \notin DOMAIN timers'
                 /\ sent'[c] = <<>>
            ELSE /\ srvSock'[c] = "open"
                 /\ sent'[c] = <<stringify(Ping)>>
                 /\ socketData' =
                      [socketData EXCEPT ![c].lastPing = now]
                 /\ timers' = Put(timers, c, now + PingTimeout)]_vars
  /\ [][\A c \in Conns :
          (/\ c \in DOMAIN timers'
           /\ c \in DOMAIN timers => timers'[c] # timers[c]) =>
            \/ c \notin DOMAIN timers /\ Connect(c)
            \/ c \in DOMAIN timers /\ timers[c] = now /\ TimerFire(c)]_vars
  /\ [](DOMAIN timers = DOMAIN socketData)
  /\ [][\A c \in Conns :
          (/\ TimerFire(c)
           /\ socketData[c].lastPong = heard[c]
           /\ heard[c] >= socketData[c].lastPing) =>
            /\ srvSock'[c] = "open"
            /\ c \in DOMAIN socketData'
            /\ c \notin DOMAIN hbClosed']_vars

\* A peer answered a Ping after the first interval and its timer has just
\* started the next probe cycle instead of closing it.
C22_Witness ==
  \E c \in Conns :
    /\ lastOp = <<"timeout", c>>
    /\ srvSock[c] = "open"
    /\ c \in DOMAIN socketData
    /\ socketData[c].lastPong > PingTimeout
    /\ socketData[c].lastPing = now
    /\ timers[c] = now + PingTimeout
    /\ c \notin DOMAIN hbClosed

\* ------------------------------------------------------------------ authentication
\* authFunction throws, or the promise it returned is rejected: the async
\* function of 'auth' ends at its await, and the catch callback of
\* sendResponse answers with an error Response.
AuthFailed(c) ==
  /\ c \notin attached
  /\ srvSock[c] # "idle"
  /\ SetSrv(sendError(SrvState, c, 0, Str("invalid token")))
  /\ lastOp' = <<"authFailed", c>>
  /\ cliLog' = <<>>
  /\ UNCHANGED <<groupRemoved, now, c2s, attached, cliVars, histVars>>

\* Peers that are no RPCClient connect, call 'auth' any number of times
\* with tokens of either user or of none, and leave; the verifier may
\* answer after the connection has gone.  One listener watches u1.
NextAuth ==
  \/ \E c \in Conns : Connect(c)
  \/ \E c \in Conns, u \in Users \cup {NoUser} : Auth(c, u)
  \/ \E c \in Conns : AuthFailed(c)
  \/ \E c \in Conns : SocketClose(c, "close")
  \/ AddListener("u1", "f")

SpecAuth == InitServer /\ [][NextAuth]_vars

\* C23: when the verifier has answered with a user and the connection still
\* has its data, 'auth' records the user's id on the connection and counts
\* one connection more for that user (and one less for the user the
\* connection had); when the verifier has answered with no user, or has
\* failed, or the connection has been torn down meanwhile, the data of every
\* connection and the presence tracker stay as they were and no listener is
\* called.
C23_AuthOnlyForLiveConnection ==
  /\ [][\A c \in Conns, u \in Users \cup {NoUser} :
          Auth(c, u) =>
            IF u # NoUser /\ c \in DOMAIN socketData
            THEN /\ socketData' = [socketData EXCEPT ![c].userId = u]
                 /\ \A v \in Users :
                      Connections(users', v) =
                        Connections(users, v)
                          + (IF v = u THEN 1 ELSE 0)
                          - (IF socketData[c].userId = v THEN 1 ELSE 0)
            ELSE /\ socketData' = socketData
                 /\ users' = users
                 /\ notified' = NoNotified]_vars
  /\ [][\A c \in Conns :
          AuthFailed(c) =>
            /\ socketData' = socketData
            /\ users' = users
            /\ notified' = NoNotified]_vars

\* The verifier answered for connection 1 after its teardown, while
\* connection 2 is authenticated as the same user: nothing was recorded.
C23_Witness ==
  /\ lastOp = <<"auth", 1, "u1">>
  /\ srvSock[1] = "closed" /\ 1 \notin DOMAIN socketData
  /\ 2 \in DOMAIN socketData /\ socketData[2].userId = "u1"
  /\ Connections(users, "u1") = 1

\* ------------------------------------------------------------------ after teardown
\* A function that returned a promise still holds the context of its
\* connection and calls ctx.emit(method, params) before the promise settles.
ContextEmit(c, method, params) ==
  /\ \E id \in DOMAIN returned :
       returned[id].k \in Unsettled /\ callInfo[id].sock = c
  /\ Len(s2c[c]) + Len(delivered) < MaxChan
  /\ SetSrv(emit(SrvState, c, method, params))
  /\ lastOp' = <<"ctx.emit", c, method>>
  /\ cliLog' = <<>>
  /\ UNCHANGED <<groupRemoved, now, c2s, attached, cliVars, histVars>>

\* The calls of the functions that fail or answer later, with the context
\* of the connection in the hands of the pending function.
NextLate ==
  \/ NextAsync
  \/ \E c \in Conns : ContextEmit(c, "onMessage", <<Str("hello")>>)

SpecLate == InitRpc /\ [][NextLate]_vars

\* C24, as claimed: no frame is handed to the socket of a connection that
\* has been torn down, be it the Response of a promise that settles after
\* the teardown or an Event emitted through the context a function kept.
C24_NothingSentAfterTeardown ==
  [][\A c \in Conns :
       srvSock[c] = "closed" /\ c \notin DOMAIN socketData =>
         sent'[c] = <<>>]_vars

\* ------------------------------------------------------------------ group membership
\* server.removeFromAllGroups(ws)
RemoveFromAllGroups(c) ==
  /\ srvSock[c] # "idle"
  /\ SetSrv(removeFromAllGroups(SrvState, c))
  /\ lastOp' = <<"removeFromAllGroups", c>>
  /\ cliLog' = <<>>
  /\ UNCHANGED <<groupRemoved, now, c2s, attached, cliVars, histVars>>

\* Connections open, join and leave groups, leave all of them and close;
\* the group operations are also called for connections that have closed,
\* as a function does through the context it kept.
NextMembership ==
  \/ \E c \in Conns : Connect(c)
  \/ \E c \in Conns, e \in {"close", "error"} : SocketClose(c, e)
  \/ \E c \in Conns, g \in Groups : AddToGroup(c, g)
  \/ \E c \in Conns, g \in Groups : RemoveFromGroup(c, g)
  \/ \E c \in Conns : RemoveFromAllGroups(c)
  \/ \E g \in Groups, cb \in GroupCallbacks : OnGroupRemoved(g, cb)

SpecMembership == InitServer /\ [][NextMembership]_vars

\* C25: a socket is in the set of a group exactly when it has data and the
\* group is in the groups of its data; every member of a group is an open
\* connection with data; and no group is kept with an empty set.
C25_MembershipConsistent ==
  /\ \A c \in Conns, g \in Groups :
       (g \in DOMAIN groups /\ c \in groups[g])
         <=> (c \in DOMAIN socketData /\ g \in socketData[c].groups)
  /\ \A g \in DOMAIN groups :
       /\ groups[g] # {}
       /\ \A c \in groups[g] :
            c \in DOMAIN socketData /\ c \in clients /\ srvSock[c] = "open"

\* addToGroup through the context of a connection that has been torn down
\* did nothing, while the other connection is the one member of the group.
C25_Witness ==
  /\ lastOp = <<"addToGroup", 1, "room1">>
  /\ srvSock[1] = "closed" /\ 1 \notin DOMAIN socketData
  /\ DOMAIN groups = {"room1"} /\ groups["room1"] = {2}
  /\ socketData[2].groups = {"room1"}

\* ------------------------------------------------------------------ presence of connections
\* The connections with data that are authenticated as user u.
LiveAs(u) == {c \in DOMAIN socketData : socketData[c].userId = u}

C27_FalseOnlyWhenNoneLive ==
  \A u \in DOMAIN users, l \in Listeners :
    (/\ l \in users[u].onStateChanged
     /\ \E i \in 1..Len(notified[l]) : notified[l][i] = FALSE) =>
      LiveAs(u) = {}

\* ------------------------------------------------------------------ events the server receives
\* The event names server.on(name, listener) has given a listener.
ServerEvents == {"notify"}

\* RPCServer.onRPCEvent: signal.emit calls the listeners of the event with
\* the context of the connection; threw says whether one of them throws, and
\* the exception leaves onRPCEvent (err is set).
onRPCEvent(st, ws, event, threw) ==
  IF ws \notin DOMAIN st.socketData THEN st
  ELSE IF event.method \in ServerEvents /\ threw
  THEN [st EXCEPT !.err = "listener"]
  ELSE st

\* The 'message' handler onConnection installs: JSON.parse and onMessage run
\* inside one try block whose catch clause is onDisconnect(ws).
onSocketMessage(st, ws, frame, threw) ==
  IF ~frame.ok THEN onDisconnect(st, ws)
  ELSE LET data == parse(frame)
           st1 == IF data.type = "rpcEvent" THEN onRPCEvent(st, ws, data, threw)
                  ELSE st
       IN IF st1.err # "" THEN onDisconnect([st1 EXCEPT !.err = ""], ws)
          ELSE st1

\* An Event of a peer that is no RPCClient arrives.
PeerEvent(c, method, threw) ==
  /\ c \notin attached
  /\ srvSock[c] = "open"
  /\ SetSrv(onSocketMessage(SrvState, c,
                            stringify(RPCEvent(method, <<Str("hello")>>)), threw))
  /\ lastOp' = <<"event", c, method, threw>>
  /\ cliLog' = <<>>
  /\ UNCHANGED <<groupRemoved, now, c2s, attached, cliVars, histVars>>

\* Peers that are no RPCClient authenticate, join a group and send Events,
\* with and without a listener, and frames that do not parse.
NextEvents ==
  \/ \E c \in Conns : Connect(c)
  \/ \E c \in Conns : Auth(c, "u1")
  \/ \E c \in Conns : AddToGroup(c, "room1")
  \/ \E c \in Conns, m \in {"notify", "other"}, t \in BOOLEAN : PeerEvent(c, m, t)
  \/ \E c \in Conns : PeerGarbage(c)

SpecEvents == InitServer /\ [][NextEvents]_vars

\* C28, as claimed: an Event whose listener throws leaves the connection as
\* it was: open, with its data, its groups and its user; a frame that does
\* not parse tears the connection down.
C28_ListenerExceptionKeepsConnection ==
  /\ [][\A c \in Conns, m \in {"notify", "other"}, t \in BOOLEAN :
          PeerEvent(c, m, t) =>
            /\ srvSock' = srvSock /\ socketData' = socketData
            /\ clients' = clients /\ groups' = groups
            /\ users' = users /\ timers' = timers]_vars
  /\ [][\A c \in Conns :
          PeerGarbage(c) =>
            c \notin DOMAIN socketData' /\ srvSock'[c] # "open"]_vars

\* ------------------------------------------------------------------ one loss, one notification
\* C29, as claimed: the close event of a socket whose loss has just been
\* notified, by the error handler of that socket or by disconnect() after a
\* frame of it that did not parse, emits no second onDisconnected.
C29_OneNotificationPerLoss ==
  [][\A k \in Conns :
       (/\ ClientOnClose(k)
        /\ lastOp[1] \in {"clientError", "clientMessage"}
        /\ lastOp[2] = k
        /\ cliLog = <<"onDisconnected">>) =>
         cliLog' = <<>>]_vars

\* ------------------------------------------------------------------ the socket reconnect() left
\* C30, as claimed: the open, error and close events of a socket that is no
\* longer the client's current one leave the connected flag and the current
\* socket as they are and emit nothing, and the connected flag is set only
\* while the current socket is open.
C30_OldTransportIsIgnored ==
  /\ [][\A k \in Conns :
          (/\ k # clientWs
           /\ ClientOnOpen(k) \/ ClientOnClose(k) \/ ClientOnError(k)) =>
            /\ connected' = connected
            /\ cliSock'[clientWs] = cliSock[clientWs]
            /\ cliLog' = <<>>]_vars
  /\ [](connected => cliSock[clientWs] = "open")

====
